---- MODULE Spec2Model ----
(***************************************************************************)
(* Model of backend/search_tools.py: the Content Search tool               *)
(* (CourseSearchTool), the Outline Lookup tool (CourseOutlineTool) and the *)
(* Tool Registry/Dispatcher (ToolManager), together with the               *)
(* Orchestration Loop that drives them.                                    *)
(*                                                                         *)
(* Conventions.  A Python Optional value is <<>> (None) or <<v>>.  A text  *)
(* (str) is the sequence of the pieces an f-string or a join puts          *)
(* together, so that concatenation is \o and "" is <<>>.  Course titles    *)
(* are sequences of characters, because the deduplication key of           *)
(* _format_results is built from their characters.                         *)
(***************************************************************************)
EXTENDS Integers, Sequences, FiniteSets, TLC

VARIABLES
    tools,          \* ToolManager.tools: the insertion-ordered dict, as a sequence of [name, tool]
    last_sources,   \* tool instance -> its last_sources list
    ret,            \* outcome of the last call (return value or raised error)
    builtBy,        \* history: tool instance -> the invocation that assigned last_sources
    call,           \* the call about to be made on a fresh tool (direct-call specification)
    loop            \* the Orchestration Loop's state

vars == <<tools, last_sources, ret, builtBy, call, loop>>

----------------------------------------------------------------------------
(* Bounds *)

MaxDocs == 3

MaxRegDocs == 1

MaxBudget == 2

MaxRequests == 2

MaxLessons == 3

----------------------------------------------------------------------------
(* Python values *)

None == <<>>

Some(v) == <<v>>

\* a test that takes every value but None for given
IsNotNone(o) == o # None

\* truthiness of an Optional[str] whose str is an atom ("" is falsy)
TruthyStr(o) == o # None /\ o[1] # ""

\* truthiness of an Optional[int] (0 is falsy)
TruthyInt(o) == o # None /\ o[1] # 0

\* truthiness of an Optional[text] (the empty text is falsy)
TruthyText(o) == o # None /\ o[1] # <<>>

DigitChars == <<"0", "1", "2", "3", "4", "5", "6", "7", "8", "9">>

RECURSIVE Str(_)
\* str(n) of a natural number: its decimal digits
Str(n) ==
    IF n < 10 THEN <<DigitChars[n + 1]>>
    ELSE Str(n \div 10) \o <<DigitChars[(n % 10) + 1]>>

\* f"{x}" of an Optional[int]
FmtOpt(o) == IF o = None THEN <<"N", "o", "n", "e">> ELSE Str(o[1])

RECURSIVE Join(_, _)
\* sep.join(texts)
Join(sep, texts) ==
    IF texts = <<>> THEN <<>>
    ELSE IF Len(texts) = 1 THEN texts[1]
    ELSE texts[1] \o sep \o Join(sep, Tail(texts))

Min(a, b) == IF a < b THEN a ELSE b

----------------------------------------------------------------------------
(* The Retrieval Backend (vector store), as the tools see it *)

Titles == { <<"A">>, <<"A", "_", "1">> }

LessonNums == {0, 1}

UnknownTitle == <<"u", "n", "k", "n", "o", "w", "n">>

\* one metadata mapping of a result set
Metas == [course_title : {None} \cup {Some(t) : t \in Titles},
          lesson_number : {None} \cup {Some(n) : n \in LessonNums}]

DocText(i) == "doc" \o DigitChars[i + 1]

\* SearchResults(documents, metadata, error)
SearchResults(documents, metadata, error) ==
    [documents |-> documents, metadata |-> metadata, error |-> error]

\* SearchResults.is_empty()
IsEmpty(results) == Len(results.documents) = 0

BackendErrors == { <<"No course found matching '", "MCP", "'">>, <<"Search error: ", "timeout">> }

BackendFaults == { <<"Database connection error">> }

DocResults(metas, maxDocs) ==
    UNION { { SearchResults([i \in 1..n |-> DocText(i)], m, None) : m \in [1..n -> metas] }
            : n \in 0..maxDocs }

ErrorResults == { SearchResults(<<>>, <<>>, Some(e)) : e \in BackendErrors }

\* what store.search does: return a result set, or raise
SearchOutcomes(metas, maxDocs) ==
    { [kind |-> "return", results |-> r, msg |-> <<>>] : r \in DocResults(metas, maxDocs) \cup ErrorResults }
    \cup { [kind |-> "raise", results |-> SearchResults(<<>>, <<>>, None), msg |-> m] : m \in BackendFaults }

\* a store: the outcome of search, and the titles whose link lookups raise
Stores(metas, maxDocs) ==
    [search : SearchOutcomes(metas, maxDocs),
     courseLinkFaults : { {}, {<<"A">>} },
     lessonLinkFaults : { {}, {<<"A", "_", "1">>} }]

LinkFault == <<"link lookup failed">>

\* store.get_course_link(title), when it returns
GetCourseLink(title) == Some(<<"https://c/">> \o title)

\* store.get_lesson_link(title, n), when it returns
GetLessonLink(title, n) == Some(<<"https://c/">> \o title \o <<"/">> \o Str(n))

----------------------------------------------------------------------------
(* CourseSearchTool *)

\* numbering that forgets the + 1 of len(sources) + 1
SourceZeroBased(course_title, course_link, lesson_number, lesson_title, lesson_link, citation_number) ==
    [course_title |-> course_title, course_link |-> course_link,
     lesson_number |-> lesson_number, lesson_title |-> lesson_title,
     lesson_link |-> lesson_link, citation_number |-> citation_number - 1]

\* Source(...): the Citation Record built at lines 126-133
Source(course_title, course_link, lesson_number, lesson_title, lesson_link, citation_number) ==
    [course_title |-> course_title, course_link |-> course_link,
     lesson_number |-> lesson_number, lesson_title |-> lesson_title,
     lesson_link |-> lesson_link, citation_number |-> citation_number]

\* CourseSearchTool._get_lesson_title: the catalog's title of the lesson, None on any failure
GetLessonTitle(title, n) == Some(<<"Lesson ">> \o Str(n))

\* meta.get('course_title', 'unknown')
CourseTitleOf(meta) ==
    IF meta.course_title = None THEN UnknownTitle ELSE meta.course_title[1]

\* a header that tests the lesson number for truth: lesson 0 gets no lesson part
HeaderTruthy(course_title, lesson_num) ==
    <<"[">> \o course_title
    \o (IF TruthyInt(lesson_num) THEN <<" - Lesson ">> \o Str(lesson_num[1]) ELSE <<>>)
    \o <<"]">>

\* the context header of one block
Header(course_title, lesson_num) ==
    <<"[">> \o course_title
    \o (IF lesson_num # None THEN <<" - Lesson ">> \o Str(lesson_num[1]) ELSE <<>>)
    \o <<"]">>

\* a key that forgets the lesson number
SourceKeyTitleOnly(course_title, lesson_num) == course_title

\* source_key = f"{course_title}_{lesson_num}"
SourceKey(course_title, lesson_num) == course_title \o <<"_">> \o FmtOpt(lesson_num)

\* the state of the loop of _format_results before its first iteration
FormatStart == [formatted |-> <<>>, sources |-> <<>>, seen_sources |-> {}, raised |-> None]

\* one iteration of the loop of _format_results over (doc, meta)
FormatStep(acc, doc, meta, store) ==
    LET course_title == CourseTitleOf(meta)
        lesson_num == meta.lesson_number
        header == Header(course_title, lesson_num)
        source_key == SourceKey(course_title, lesson_num)
        block == header \o <<"\n", doc>>
    IN  IF source_key \notin acc.seen_sources
        THEN IF course_title \in store.courseLinkFaults
                \/ (lesson_num # None /\ course_title \in store.lessonLinkFaults)
             THEN [acc EXCEPT !.raised = Some(LinkFault)]
             ELSE LET source == Source(course_title,
                                       GetCourseLink(course_title),
                                       lesson_num,
                                       IF lesson_num # None
                                           THEN GetLessonTitle(course_title, lesson_num[1]) ELSE None,
                                       IF lesson_num # None
                                           THEN GetLessonLink(course_title, lesson_num[1]) ELSE None,
                                       Len(acc.sources) + 1)
                  IN  [acc EXCEPT !.seen_sources = @ \cup {source_key},
                                  !.sources = Append(@, source),
                                  !.formatted = Append(@, block)]
        ELSE [acc EXCEPT !.formatted = Append(@, block)]

RECURSIVE FormatLoop(_, _, _, _)
\* the loop of _format_results from position i on; an exception ends it
FormatLoop(acc, i, results, store) ==
    IF acc.raised # None \/ i > Min(Len(results.documents), Len(results.metadata))
    THEN acc
    ELSE FormatLoop(FormatStep(acc, results.documents[i], results.metadata[i], store),
                    i + 1, results, store)

\* a loop that publishes the records built before the exception
PartialSources(self_last_sources, sources) == sources

\* self.last_sources when the loop of _format_results raises: the assignment behind the
\* loop is not reached
FailedFormatSources(self_last_sources, sources) == self_last_sources

\* CourseSearchTool._format_results: the text returned and the last_sources left,
\* or the exception raised (last_sources is then not assigned)
FormatResults(self_last_sources, results, store) ==
    LET acc == FormatLoop(FormatStart, 1, results, store)
    IN  IF acc.raised # None
        THEN [text |-> <<>>, raised |-> acc.raised,
              last_sources |-> FailedFormatSources(self_last_sources, acc.sources)]
        ELSE [text |-> Join(<<"\n\n">>, acc.formatted), raised |-> None,
              last_sources |-> acc.sources]

\* the message of the empty-result branch of execute
EmptyMessage(course_name, lesson_number) ==
    <<"No relevant content found">>
    \o (IF TruthyStr(course_name) THEN <<" in course '", course_name[1], "'">> ELSE <<>>)
    \o (IF TruthyInt(lesson_number) THEN <<" in lesson ">> \o Str(lesson_number[1]) ELSE <<>>)
    \o <<".">>

\* an except branch that returns the exception's message without the marker
SearchToolErrorUnmarked(msg) == msg

\* return f"Search tool error: {str(e)}"
SearchToolError(msg) == <<"Search tool error: ">> \o msg

\* an error branch that wraps the backend's message like an internal failure
BackendErrorWrapped(results) == SearchToolError(results.error[1])

\* return results.error
BackendError(results) == results.error[1]

\* a return path that empties the list before it returns
AssignedEmpty(self_last_sources) == <<>>

\* self.last_sources on a return path of execute that does not assign it
Unassigned(self_last_sources) == self_last_sources

\* CourseSearchTool.execute: [text, raised, last_sources]; outcome names the branch taken
SearchExecute(self_last_sources, query, course_name, lesson_number, store) ==
    IF store.search.kind = "raise"
    THEN [outcome |-> "exception", text |-> SearchToolError(store.search.msg),
          raised |-> None, last_sources |-> Unassigned(self_last_sources)]
    ELSE LET results == store.search.results
         IN  IF TruthyText(results.error)
             THEN [outcome |-> "error", text |-> BackendError(results),
                   raised |-> None, last_sources |-> Unassigned(self_last_sources)]
             ELSE IF IsEmpty(results)
             THEN [outcome |-> "empty", text |-> EmptyMessage(course_name, lesson_number),
                   raised |-> None, last_sources |-> Unassigned(self_last_sources)]
             ELSE LET f == FormatResults(self_last_sources, results, store)
                  IN  IF f.raised # None
                      THEN [outcome |-> "exception", text |-> SearchToolError(f.raised[1]),
                            raised |-> None, last_sources |-> f.last_sources]
                      ELSE [outcome |-> "formatted", text |-> f.text,
                            raised |-> None, last_sources |-> f.last_sources]

----------------------------------------------------------------------------
(* CourseOutlineTool *)

\* one entry of the parsed lessons list: a dict, or something that is not a dict
Lesson(lesson_number, lesson_title, lesson_link) ==
    [isDict |-> TRUE, lesson_number |-> lesson_number,
     lesson_title |-> lesson_title, lesson_link |-> lesson_link]

NotADict == [isDict |-> FALSE, lesson_number |-> None, lesson_title |-> None, lesson_link |-> None]

\* a key that is the same for every lesson: the stable sort then keeps the stored order
SortKeyConstant(lesson) == 0

\* key=lambda x: x.get('lesson_number', 0)
SortKey(lesson) == IF lesson.lesson_number = None THEN 0 ELSE lesson.lesson_number[1]

RECURSIVE InsertSorted(_, _)
\* insert x behind every element whose key is not greater: the sort is stable
InsertSorted(sorted, x) ==
    IF sorted = <<>> THEN <<x>>
    ELSE IF SortKey(x) < SortKey(sorted[1]) THEN <<x>> \o sorted
    ELSE <<sorted[1]>> \o InsertSorted(Tail(sorted), x)

RECURSIVE Sorted(_)
\* sorted(lessons, key=...)
Sorted(lessons) ==
    IF lessons = <<>> THEN <<>>
    ELSE InsertSorted(Sorted(SubSeq(lessons, 1, Len(lessons) - 1)), lessons[Len(lessons)])

\* one rendered lesson line
LessonLine(lesson) ==
    <<"  ">>
    \o (IF lesson.lesson_number = None THEN <<"?">> ELSE Str(lesson.lesson_number[1]))
    \o <<". ">>
    \o (IF lesson.lesson_title = None THEN <<"Untitled">> ELSE lesson.lesson_title[1])
    \o (IF TruthyText(lesson.lesson_link) THEN <<" - ">> \o lesson.lesson_link[1] ELSE <<>>)

NoLinkAvailable == <<"No link available">>

UnknownInstructor == <<"Unknown">>

\* CourseOutlineTool._format_outline; a lesson that is not a dict raises in the sort key
FormatOutline(title, course_link, instructor, lessons) ==
    IF \E i \in 1..Len(lessons) : ~lessons[i].isDict
    THEN [text |-> <<>>, raised |-> Some(<<"'str' object has no attribute 'get'">>)]
    ELSE LET sorted_lessons == Sorted(lessons)
             output ==
                 << <<"Course: ">> \o title >>
                 \o (IF course_link # <<>> /\ course_link # NoLinkAvailable
                     THEN << <<"Link: ">> \o course_link >> ELSE <<>>)
                 \o (IF instructor # <<>> /\ instructor # UnknownInstructor
                     THEN << <<"Instructor: ">> \o instructor >> ELSE <<>>)
                 \o << <<"\nLessons (">> \o Str(Len(lessons)) \o <<" total):">> >>
                 \o [i \in 1..Len(sorted_lessons) |-> LessonLine(sorted_lessons[i])]
         IN  [text |-> Join(<<"\n">>, output), raised |-> None]

\* a no-course message that does not name the input
NoCourseFoundUnnamed(course_name) == <<"No course found.">>

NoCourseFound(course_name) ==
    <<"No course found matching '", course_name,
      "'. Please try a different course name or check available courses.">>

\* a no-metadata message that does not name the course
NoMetadataUntitled(course_title) == <<"Course exists but has no metadata available.">>

NoMetadata(course_title) ==
    <<"Course '">> \o course_title \o <<"' exists but has no metadata available.">>

NoLessonsInformation(course_title) ==
    <<"Course '">> \o course_title \o <<"' has no lessons information available.">>

EmptyLessons(course_title) ==
    <<"Course '">> \o course_title \o <<"' has an empty lessons list.">>

\* except json.JSONDecodeError
ParseError(course_name, msg) ==
    <<"Error parsing lessons data for course '", course_name, "': ">> \o msg

\* an except branch that drops the exception's message
OutlineErrorSilent(msg) == <<"Error retrieving course outline">>

\* except Exception
OutlineError(msg) == <<"Error retrieving course outline: ">> \o msg

\* the text returned by CourseOutlineTool.execute; outcome names the branch taken.
\* store.resolve is what _resolve_course_name does, store.catalog what course_catalog.get does.
OutlineExecute(course_name, store) ==
    IF store.resolve.kind = "raise"
    THEN [outcome |-> "exception", text |-> OutlineError(store.resolve.msg)]
    ELSE LET course_title == store.resolve.value
         IN  IF ~TruthyText(course_title)
             THEN [outcome |-> "no_course", text |-> NoCourseFound(course_name)]
             ELSE IF store.catalog.kind = "raise"
             THEN [outcome |-> "exception", text |-> OutlineError(store.catalog.msg)]
             ELSE IF store.catalog.metadatas = <<>>
             THEN [outcome |-> "no_metadata", text |-> NoMetadata(course_title[1])]
             ELSE LET metadata == store.catalog.metadatas[1]
                      course_link == IF metadata.course_link = None
                                     THEN NoLinkAvailable ELSE metadata.course_link[1]
                      instructor == IF metadata.instructor = None
                                    THEN UnknownInstructor ELSE metadata.instructor[1]
                      lessons_json == metadata.lessons_json
                  IN  IF lessons_json = None \/ lessons_json[1].kind = "blank"
                      THEN [outcome |-> "no_lessons",
                            text |-> NoLessonsInformation(course_title[1])]
                      ELSE IF lessons_json[1].kind = "invalid"
                      THEN [outcome |-> "parse_error",
                            text |-> ParseError(course_name, lessons_json[1].msg)]
                      ELSE IF lessons_json[1].value = <<>>
                      THEN [outcome |-> "empty_lessons", text |-> EmptyLessons(course_title[1])]
                      ELSE LET f == FormatOutline(course_title[1], course_link, instructor,
                                                  lessons_json[1].value)
                           IN  IF f.raised # None
                               THEN [outcome |-> "exception", text |-> OutlineError(f.raised[1])]
                               ELSE [outcome |-> "outline", text |-> f.text]

----------------------------------------------------------------------------
(* Tool instances *)

\* The tools handed to the registry: the CourseSearchTool, the CourseOutlineTool,
\* a second tool that tracks sources the way CourseSearchTool does under a name of
\* its own, and a Tool whose definition carries no name.
ToolPool == {"search", "outline", "custom", "unnamed"}

\* further instances a registry may be handed: a second CourseOutlineTool, built over
\* another store, and a Tool whose definition carries the empty name
RegToolPool == ToolPool \cup {"outline2", "emptyname"}

\* the CourseOutlineTool instances
OutlineTools == {"outline", "outline2"}

\* the tools that have a last_sources attribute
SourceTools == {"search", "outline", "custom", "outline2"}

\* tool.get_tool_definition().get("name")
DefName(tool) ==
    CASE tool = "search" -> Some("search_course_content")
      [] tool = "outline" -> Some("get_course_outline")
      [] tool = "custom" -> Some("custom_search")
      [] tool = "outline2" -> Some("get_course_outline")
      [] tool = "emptyname" -> Some("")
      [] OTHER -> None

\* tool.get_tool_definition(): the name and the required parameters of the schema
GetToolDefinition(tool) ==
    [name |-> DefName(tool),
     required |-> IF tool \in OutlineTools THEN <<"course_name">>
                  ELSE IF tool \in {"search", "custom"} THEN <<"query">>
                  ELSE <<>>]

\* no invocation has assigned the list (it is the empty list of __init__ or of a reset)
NoInv == [q |-> 0, age |-> 0]

\* the outcome of a call that returns text; outcome names the branch the tool took.
\* tool is the instance the call was handed or ran ("" when none), prev the instance a
\* registration replaced, defs the list get_tool_definitions returned.
Returned(op, q, outcome, text) ==
    [op |-> op, q |-> q, name |-> "", raised |-> None, outcome |-> outcome, text |-> text,
     sources |-> <<>>, by |-> 0, tool |-> "", prev |-> None, defs |-> <<>>]

\* the outcome of a call that raises
Raised(op, q, exc) ==
    [op |-> op, q |-> q, name |-> "", raised |-> Some(exc), outcome |-> "raised", text |-> <<>>,
     sources |-> <<>>, by |-> 0, tool |-> "", prev |-> None, defs |-> <<>>]

NoRet == Returned("none", 0, "", <<>>)

\* CourseSearchTool.__init__, CourseOutlineTool.__init__
FreshSources == [t \in SourceTools |-> <<>>]

FreshBuiltBy == [t \in SourceTools |-> NoInv]

----------------------------------------------------------------------------
(* Direct calls of CourseSearchTool.execute on a fresh tool *)

CourseNames == {None, Some(""), Some("MCP")}

LessonArgs == {None} \cup {Some(n) : n \in LessonNums}

FmtCalls ==
    [query : {"What is RAG?"}, course_name : CourseNames, lesson_number : LessonArgs,
     store : Stores(Metas, MaxDocs)]

InitFmt ==
    /\ tools = <<>>
    /\ last_sources = FreshSources
    /\ builtBy = FreshBuiltBy
    /\ loop = <<>>
    /\ ret = NoRet
    /\ call \in {Some(c) : c \in FmtCalls}

\* tool.execute(query=..., course_name=..., lesson_number=...)
Execute ==
    /\ call # None
    /\ ret = NoRet
    /\ LET c == call[1]
           r == SearchExecute(last_sources["search"], c.query, c.course_name,
                              c.lesson_number, c.store)
       IN  /\ last_sources' = [last_sources EXCEPT !["search"] = r.last_sources]
           /\ ret' = Returned("execute", 0, r.outcome, r.text)
    /\ UNCHANGED <<tools, builtBy, call, loop>>

NextFmt == Execute

SpecFmt == InitFmt /\ [][NextFmt]_vars

----------------------------------------------------------------------------
(* ToolManager *)

Queries == {1, 2}

\* tool_name in self.tools
Has(d, name) == \E i \in 1..Len(d) : d[i].name = name

\* self.tools[tool_name]
Get(d, name) == d[CHOOSE i \in 1..Len(d) : d[i].name = name].tool

\* a registry that keeps every registration as an entry of its own
PutAppend(d, name, tool) == Append(d, [name |-> name, tool |-> tool])

\* self.tools[tool_name] = tool: a new key goes last, a known key keeps its place
Put(d, name, tool) ==
    IF Has(d, name)
    THEN [i \in 1..Len(d) |-> IF d[i].name = name THEN [name |-> name, tool |-> tool] ELSE d[i]]
    ELSE Append(d, [name |-> name, tool |-> tool])

\* the values taken last registration first
ValuesReversed(d) == [i \in 1..Len(d) |-> d[Len(d) + 1 - i].tool]

\* self.tools.values()
Values(d) == [i \in 1..Len(d) |-> d[i].tool]

\* the argument bag of a tool invocation: the declared keys it carries, and whether it
\* carries an undeclared one
Bag(query, course_name, lesson_number, extra) ==
    [query |-> query, course_name |-> course_name, lesson_number |-> lesson_number,
     extra |-> extra]

Bags ==
    { Bag(Some("What is RAG?"), None, None, FALSE),
      Bag(None, Some("MCP"), None, FALSE),
      Bag(None, None, None, TRUE) }

\* the stores a registered search tool is run against
RegMetas == { [course_title |-> Some(<<"A">>), lesson_number |-> None],
              [course_title |-> Some(<<"A", "_", "1">>), lesson_number |-> Some(1)] }

RegStores ==
    { s \in Stores(RegMetas, MaxRegDocs) :
        \/ s.courseLinkFaults = {} /\ s.lessonLinkFaults = {}
        \/ s.search.kind = "return" /\ ~IsEmpty(s.search.results) /\ s.lessonLinkFaults = {} }

\* what _resolve_course_name does
Resolved(value) == [kind |-> "return", value |-> value, msg |-> <<>>]

\* what course_catalog.get does: metadatas is <<>> when the result is falsy, has no
\* 'metadatas' or an empty one
Catalog(metadatas) == [kind |-> "return", metadatas |-> metadatas, msg |-> <<>>]

Raises(msg) == [kind |-> "raise", value |-> None, metadatas |-> <<>>, msg |-> msg]

\* a stored lessons_json: blank (""), not JSON, or JSON of a list
LessonsJson(kind, value) ==
    [kind |-> kind, value |-> value, msg |-> <<"Expecting value: line 1 column 1 (char 0)">>]

CourseMetadata(course_link, instructor, lessons_json) ==
    [course_link |-> course_link, instructor |-> instructor, lessons_json |-> lessons_json]

TwoLessons ==
    << Lesson(Some(1), Some(<<"Second">>), None),
       Lesson(Some(0), Some(<<"First">>), Some(<<"https://c/A/0">>)) >>

\* the stores a registered outline tool is run against
RegOutlineStores ==
    { [resolve |-> Raises(<<"Database error">>), catalog |-> Catalog(<<>>)],
      [resolve |-> Resolved(None), catalog |-> Catalog(<<>>)],
      [resolve |-> Resolved(Some(<<"A">>)), catalog |-> Catalog(<<>>)],
      [resolve |-> Resolved(Some(<<"A">>)),
       catalog |-> Catalog(<<CourseMetadata(Some(<<"https://c/A">>), None,
                                            Some(LessonsJson("invalid", <<>>)))>>)],
      [resolve |-> Resolved(Some(<<"A">>)),
       catalog |-> Catalog(<<CourseMetadata(Some(<<"https://c/A">>), Some(<<"Dr. Smith">>),
                                            Some(LessonsJson("valid", TwoLessons)))>>)] }

\* the store of the second CourseOutlineTool: it knows course B only, without metadata
OtherOutlineStores == { [resolve |-> Resolved(Some(<<"B">>)), catalog |-> Catalog(<<>>)] }

StoresOf(tool) ==
    CASE tool = "outline" -> RegOutlineStores
      [] tool = "outline2" -> OtherOutlineStores
      [] OTHER -> RegStores

TypeError == <<"TypeError: ", "execute() got unexpected or missing keyword arguments">>

\* whether the bag binds to the parameters of the tool's execute: execute(query,
\* course_name=None, lesson_number=None) for the search tools, execute(course_name)
\* for the outline tool
Binds(tool, kwargs) ==
    IF tool \in OutlineTools
    THEN kwargs.course_name # None /\ kwargs.query = None
         /\ kwargs.lesson_number = None /\ ~kwargs.extra
    ELSE kwargs.query # None /\ ~kwargs.extra

\* an outline execute that publishes a record for the course it rendered
OutlineLastSourcesCited(self_last_sources, outcome) ==
    IF outcome = "outline"
    THEN <<Source(<<"A">>, GetCourseLink(<<"A">>), None, None, None, 1)>>
    ELSE self_last_sources

\* self.last_sources after CourseOutlineTool.execute: no branch of it assigns the list
OutlineLastSources(self_last_sources, outcome) == self_last_sources

\* the body of tool.execute(**kwargs) for a bag that binds; assigned: it assigned
\* self.last_sources
ToolExecute(tool, self_last_sources, kwargs, store) ==
    IF tool \in OutlineTools
    THEN LET r == OutlineExecute(kwargs.course_name[1], store)
         IN  [assigned |-> FALSE, outcome |-> r.outcome, text |-> r.text,
              last_sources |-> OutlineLastSources(self_last_sources, r.outcome)]
    ELSE LET r == SearchExecute(self_last_sources, kwargs.query[1], kwargs.course_name,
                                kwargs.lesson_number, store)
         IN  [assigned |-> r.outcome = "formatted", outcome |-> r.outcome, text |-> r.text,
              last_sources |-> r.last_sources]

ToolNames == {"search_course_content", "get_course_outline", "custom_search", "nonexistent_tool"}

\* a not-found error that does not say which name was asked for
ToolNotFoundAnonymous(tool_name) == <<"ValueError: ", "Tool not found">>

\* ValueError(f"Tool '{tool_name}' not found")
ToolNotFound(tool_name) == <<"ValueError: ", "Tool '", tool_name, "' not found">>

Init ==
    /\ tools = <<>>
    /\ last_sources = FreshSources
    /\ builtBy = FreshBuiltBy
    /\ ret = NoRet
    /\ call = None
    /\ loop = <<>>

\* ToolManager.register_tool(tool)
RegisterTool(tool) ==
    /\ call = None
    /\ LET tool_name == DefName(tool)
       IN  IF ~TruthyStr(tool_name)
           THEN /\ ret' = [Raised("register_tool", 0,
                                  <<"ValueError: ", "Tool must have a 'name' in its definition">>)
                              EXCEPT !.tool = tool]
                /\ tools' = tools
           ELSE /\ tools' = Put(tools, tool_name[1], tool)
                /\ ret' = [Returned("register_tool", 0, "", <<>>) EXCEPT
                              !.name = tool_name[1], !.tool = tool,
                              !.prev = IF Has(tools, tool_name[1])
                                       THEN Some(Get(tools, tool_name[1])) ELSE None]
    /\ UNCHANGED <<last_sources, builtBy, call, loop>>

\* a dispatch that empties every list before it looks the name up
AfterNotFoundReset(sources) == [t \in DOMAIN sources |-> <<>>]

\* the tools' lists when execute_tool raises for an unknown name: the raise comes first
AfterNotFound(sources) == sources

\* a dispatch that empties the list of every other tool
AfterExecuteOthersEmptied(sources, tool, new) ==
    [t \in DOMAIN sources |-> IF t = tool THEN new ELSE <<>>]

\* the tools' lists after tool.execute ran: execute works on its own instance only
AfterExecute(sources, tool, new) == [sources EXCEPT ![tool] = new]

\* ToolManager.execute_tool(tool_name, **kwargs), called on behalf of query q
ExecuteTool(q, tool_name, kwargs) ==
    /\ call = None
    /\ IF ~Has(tools, tool_name)
       THEN /\ ret' = [Raised("execute_tool", q, ToolNotFound(tool_name)) EXCEPT !.name = tool_name]
            /\ last_sources' = AfterNotFound(last_sources)
            /\ UNCHANGED builtBy
       ELSE LET tool == Get(tools, tool_name)
            IN  IF ~Binds(tool, kwargs)
                THEN /\ ret' = [Raised("execute_tool", q, TypeError) EXCEPT !.name = tool_name]
                     /\ UNCHANGED <<last_sources, builtBy>>
                ELSE \E store \in StoresOf(tool) :
                       LET r == ToolExecute(tool, last_sources[tool], kwargs, store)
                       IN  /\ last_sources' = AfterExecute(last_sources, tool, r.last_sources)
                           /\ builtBy' = [builtBy EXCEPT ![tool] =
                                             IF r.assigned THEN [q |-> q, age |-> 0]
                                             ELSE IF @ # NoInv THEN [@ EXCEPT !.age = 1]
                                             ELSE @]
                           /\ ret' = [Returned("execute_tool", q, r.outcome, r.text)
                                          EXCEPT !.name = tool_name, !.tool = tool]
    /\ UNCHANGED <<tools, call, loop>>

\* ToolManager.get_tool_definitions()
GetToolDefinitions ==
    /\ call = None
    /\ ret' = [Returned("get_tool_definitions", 0, "", <<>>) EXCEPT
                  !.defs = [i \in 1..Len(Values(tools)) |-> GetToolDefinition(Values(tools)[i])]]
    /\ UNCHANGED <<tools, last_sources, builtBy, call, loop>>

RECURSIVE FirstWithSources(_, _)
\* the loop of get_last_sources from position i on: the place of the first tool that has
\* a last_sources attribute and a non-empty list, 0 when there is none
FirstWithSources(values, i) ==
    IF i > Len(values) THEN 0
    ELSE IF values[i] \in SourceTools /\ last_sources[values[i]] # <<>> THEN i
    ELSE FirstWithSources(values, i + 1)

\* ToolManager.get_last_sources(), called on behalf of query q
GetLastSources(q) ==
    /\ call = None
    /\ LET values == Values(tools)
           i == FirstWithSources(values, 1)
       IN  IF i = 0
           THEN /\ ret' = Returned("get_last_sources", q, "", <<>>)
                /\ UNCHANGED <<last_sources, builtBy>>
           ELSE /\ ret' = [Returned("get_last_sources", q, "", <<>>) EXCEPT
                              !.sources = last_sources[values[i]],
                              !.by = builtBy[values[i]].q]
                /\ last_sources' = [last_sources EXCEPT ![values[i]] = <<>>]
                /\ builtBy' = [builtBy EXCEPT ![values[i]] = NoInv]
    /\ UNCHANGED <<tools, call, loop>>

\* ToolManager.reset_sources(), called on behalf of query q
ResetSources(q) ==
    /\ call = None
    /\ LET registered == {tools[i].tool : i \in 1..Len(tools)} \cap SourceTools
       IN  /\ last_sources' = [t \in SourceTools |->
                                  IF t \in registered THEN <<>> ELSE last_sources[t]]
           /\ builtBy' = [t \in SourceTools |->
                             IF t \in registered THEN NoInv ELSE builtBy[t]]
    /\ ret' = Returned("reset_sources", q, "", <<>>)
    /\ UNCHANGED <<tools, call, loop>>

Next ==
    \/ \E tool \in ToolPool : RegisterTool(tool)
    \/ \E q \in Queries, tool_name \in ToolNames, kwargs \in Bags : ExecuteTool(q, tool_name, kwargs)
    \/ \E q \in Queries : GetLastSources(q)
    \/ \E q \in Queries : ResetSources(q)

Spec == Init /\ [][Next]_vars

----------------------------------------------------------------------------
(* The registry as one caller configures and uses it *)

NextReg ==
    \/ \E tool \in RegToolPool : RegisterTool(tool)
    \/ GetToolDefinitions
    \/ \E tool_name \in ToolNames, kwargs \in Bags : ExecuteTool(1, tool_name, kwargs)

SpecReg == Init /\ [][NextReg]_vars

----------------------------------------------------------------------------
(* Direct calls of CourseOutlineTool.execute *)

\* the stored lesson of number n: every lesson has a title, the even ones a link
OutlineLesson(n) ==
    Lesson(Some(n), Some(<<"Title ">> \o Str(n)),
           IF n % 2 = 0 THEN Some(<<"https://c/A/">> \o Str(n)) ELSE None)

\* the entries a parsed lessons list may hold: the course's lessons, a dict without
\* any key, and an entry that is not a dict
LessonEntries ==
    { OutlineLesson(n) : n \in 0..(MaxLessons - 1) } \cup { Lesson(None, None, None), NotADict }

\* the lists of at most MaxLessons different entries, in every order
LessonLists ==
    UNION { { l \in [1..n -> LessonEntries] : \A i, j \in 1..n : l[i] = l[j] => i = j }
            : n \in 0..MaxLessons }

\* the lessons_json a course's metadata may hold
StoredLessons ==
    { None, Some(LessonsJson("blank", <<>>)), Some(LessonsJson("invalid", <<>>)) }
    \cup { Some(LessonsJson("valid", l)) : l \in LessonLists }

\* the stores an outline tool is called against
OutlineStores ==
    [resolve : { Raises(<<"Database error">>), Resolved(None), Resolved(Some(<<>>)),
                 Resolved(Some(<<"A">>)) },
     catalog : { Raises(<<"catalog unavailable">>), Catalog(<<>>) }
               \cup { Catalog(<<CourseMetadata(link, instructor, lessons)>>) :
                        link \in {None, Some(<<"https://c/A">>)},
                        instructor \in {None, Some(<<"Dr. Smith">>)},
                        lessons \in StoredLessons }]

OutlineCalls == [course_name : {"MCP", "Nonexistent Course"}, store : OutlineStores]

InitOutline ==
    /\ tools = <<>>
    /\ last_sources = FreshSources
    /\ builtBy = FreshBuiltBy
    /\ loop = <<>>
    /\ ret = NoRet
    /\ call \in {Some(c) : c \in OutlineCalls}

\* tool.execute(course_name=...) on a CourseOutlineTool
ExecuteOutline ==
    /\ call # None
    /\ ret = NoRet
    /\ LET r == OutlineExecute(call[1].course_name, call[1].store)
       IN  ret' = [Returned("execute", 0, r.outcome, r.text) EXCEPT !.tool = "outline"]
    /\ UNCHANGED <<tools, last_sources, builtBy, call, loop>>

NextOutline == ExecuteOutline

SpecOutline == InitOutline /\ [][NextOutline]_vars

----------------------------------------------------------------------------
(* Properties of one Content Search invocation (SpecFmt) *)

\* the call has been made
Executed == call # None /\ ret.op = "execute"

\* the result set the backend returned to the call (void when search raised)
CallResults == call[1].store.search.results

\* the call's backend returned a result set, and it has documents and no error
HasDocuments ==
    /\ call[1].store.search.kind = "return"
    /\ CallResults.error = None
    /\ ~IsEmpty(CallResults)

\* text has sub as a contiguous run of pieces
Contains(text, sub) ==
    \E i \in 1..(Len(text) - Len(sub) + 1) : SubSeq(text, i, i + Len(sub) - 1) = sub

\* the (course title, lesson number) pair of a metadata mapping, as the mapping gives it
PairOf(meta) == <<meta.course_title, meta.lesson_number>>

RECURSIVE FirstSeen(_)
\* the distinct elements of a sequence, each at the place of its first occurrence
FirstSeen(seq) ==
    IF seq = <<>> THEN <<>>
    ELSE LET init == FirstSeen(SubSeq(seq, 1, Len(seq) - 1))
             last == seq[Len(seq)]
         IN  IF \E i \in 1..Len(init) : init[i] = last THEN init ELSE Append(init, last)

\* the distinct pairs of the call's result metadata, in first-seen order
DistinctPairs == FirstSeen([i \in 1..Len(CallResults.metadata) |-> PairOf(CallResults.metadata[i])])

\* C7: within one Content Search invocation the citation_number values of the records
\* built are exactly 1, 2, ..., n in list order, and no (course title, lesson number)
\* pair receives a second citation number.
C7_CitationNumbers ==
    Executed =>
        LET s == last_sources["search"]
        IN  /\ \A i \in 1..Len(s) : s[i].citation_number = i
            /\ \A i, j \in 1..Len(s) :
                   (s[i].course_title = s[j].course_title
                    /\ s[i].lesson_number = s[j].lesson_number) => i = j

\* C7 witness: an invocation over three documents of which two share a pair, building
\* two numbered records
C7_Witness ==
    /\ Executed
    /\ ret.outcome = "formatted"
    /\ Len(CallResults.metadata) = 3
    /\ PairOf(CallResults.metadata[1]) = PairOf(CallResults.metadata[2])
    /\ Len(last_sources["search"]) = 2
    /\ last_sources["search"][2].citation_number = 2

\* C8: for a non-empty, error-free result set whose formatting completes, Content Search
\* builds exactly one Citation Record per distinct (course title, lesson number) pair of
\* the result metadata, in the order of the pairs' first occurrences; a pair without a
\* lesson number is distinct from the pairs of the same course that have one.
C8_OnePerDistinctPair ==
    (Executed /\ HasDocuments /\ ret.outcome = "formatted") =>
        LET s == last_sources["search"]
            pairs == DistinctPairs
        IN  /\ Len(s) = Len(pairs)
            /\ \A i \in 1..Len(s) :
                   /\ s[i].course_title = CourseTitleOf([course_title |-> pairs[i][1]])
                   /\ s[i].lesson_number = pairs[i][2]

\* C8 witness: documents 1 and 3 share a pair, document 2 is of the same course without
\* a lesson number; two records are built, the shared pair first
C8_Witness ==
    /\ Executed
    /\ HasDocuments
    /\ ret.outcome = "formatted"
    /\ Len(CallResults.metadata) = 3
    /\ PairOf(CallResults.metadata[1]) = PairOf(CallResults.metadata[3])
    /\ CallResults.metadata[1].lesson_number # None
    /\ CallResults.metadata[2].course_title = CallResults.metadata[1].course_title
    /\ CallResults.metadata[2].lesson_number = None
    /\ Len(last_sources["search"]) = 2

\* C9: when the backend's result set has an error set, execute returns exactly that
\* error string as an ordinary return value, whatever course_name and lesson_number are.
C9_ErrorUnmodified ==
    (Executed /\ call[1].store.search.kind = "return" /\ CallResults.error # None) =>
        /\ ret.raised = None
        /\ ret.text = CallResults.error[1]

\* C9 witness: an error result returned to a call that gave both filters
C9_Witness ==
    /\ Executed
    /\ call[1].store.search.kind = "return"
    /\ CallResults.error # None
    /\ call[1].course_name = Some("MCP")
    /\ call[1].lesson_number = Some(0)
    /\ ret.outcome = "error"

\* C10: for an empty result set the result names the course constraint whenever a
\* (non-empty) course_name was supplied and the lesson constraint whenever a
\* lesson_number was supplied, lesson 0 included, and names neither when none was.
C10_EmptyNamesFilters ==
    (Executed /\ call[1].store.search.kind = "return" /\ CallResults.error = None
        /\ IsEmpty(CallResults)) =>
        LET c == call[1]
        IN  /\ TruthyStr(c.course_name)
                => Contains(ret.text, <<" in course '", c.course_name[1], "'">>)
            /\ c.lesson_number # None
                => Contains(ret.text, <<" in lesson ">> \o Str(c.lesson_number[1]))
            /\ (c.course_name = None /\ c.lesson_number = None)
                => (~Contains(ret.text, <<" in course '">>)
                    /\ ~Contains(ret.text, <<" in lesson ">>))

\* the call's backend raises: in search, or in a link lookup made for a document of the
\* result set
SearchRaises == call[1].store.search.kind = "raise"

FormattingRaises ==
    /\ HasDocuments
    /\ \E i \in 1..Len(CallResults.metadata) :
           LET meta == CallResults.metadata[i]
           IN  \/ CourseTitleOf(meta) \in call[1].store.courseLinkFaults
               \/ (meta.lesson_number # None
                   /\ CourseTitleOf(meta) \in call[1].store.lessonLinkFaults)

\* the message of the exception the call's backend raises
RaisedMessage == IF SearchRaises THEN call[1].store.search.msg ELSE LinkFault

\* C11: when the backend raises during search, or a lookup raises while formatting,
\* execute raises nothing and returns the marker "Search tool error: " followed by the
\* exception's message; a backend-reported error and the empty-result message never
\* begin with that marker.
C11_ExceptionBecomesMarkedText ==
    Executed =>
        /\ ret.raised = None
        /\ (SearchRaises \/ FormattingRaises)
               => ret.text = <<"Search tool error: ">> \o RaisedMessage
        /\ ret.outcome \in {"error", "empty"}
               => (ret.text # <<>> /\ ret.text[1] # "Search tool error: ")

\* C11 witness: the backend's search raised "Database connection error" and the call
\* returned the marked text
C11_Witness ==
    /\ Executed
    /\ SearchRaises
    /\ ret.raised = None
    /\ ret.text = <<"Search tool error: ", "Database connection error">>

\* the block the claim describes for document i of the call's result set
ExpectedBlock(i) ==
    LET meta == CallResults.metadata[i]
        title == IF meta.course_title = None THEN UnknownTitle ELSE meta.course_title[1]
    IN  IF meta.lesson_number # None
        THEN <<"[">> \o title \o <<" - Lesson ">> \o Str(meta.lesson_number[1])
             \o <<"]", "\n", CallResults.documents[i]>>
        ELSE <<"[">> \o title \o <<"]", "\n", CallResults.documents[i]>>

\* C22: for a non-empty, error-free result set whose lookups do not raise, execute
\* returns one block per document, in result order, joined by a blank line; a block is
\* the header [title - Lesson n] when the document's metadata has a lesson number (0
\* included) and [title] otherwise, a line break and the document text.
C22_OneBlockPerDocument ==
    (Executed /\ HasDocuments /\ ~FormattingRaises) =>
        /\ ret.outcome = "formatted"
        /\ ret.text = Join(<<"\n\n">>, [i \in 1..Len(CallResults.documents) |-> ExpectedBlock(i)])

\* C22 witness: three documents, the first of lesson 0, the second without a lesson
\* number, the third of the first one's pair: three blocks, the first headed by lesson 0
C22_Witness ==
    /\ Executed
    /\ HasDocuments
    /\ ret.outcome = "formatted"
    /\ Len(CallResults.documents) = 3
    /\ CallResults.metadata[1] = [course_title |-> Some(<<"A">>), lesson_number |-> Some(0)]
    /\ CallResults.metadata[2].lesson_number = None
    /\ CallResults.metadata[3] = CallResults.metadata[1]
    /\ SubSeq(ret.text, 1, 7) = <<"[", "A", " - Lesson ", "0", "]", "\n", "doc1">>
    /\ Len(last_sources["search"]) = 2

\* C25: an invocation in which a course-link or lesson-link lookup raises while the
\* citations are built, at the first document or part-way through the result set,
\* returns the internal-failure text with the lookup's message and publishes nothing:
\* last_sources is the list the tool had before the call (the empty list of __init__).
C25_NoPartialCitations ==
    (Executed /\ FormattingRaises) =>
        /\ ret.raised = None
        /\ ret.outcome = "exception"
        /\ ret.text = <<"Search tool error: ">> \o LinkFault
        /\ last_sources["search"] = FreshSources["search"]

\* C25 witness: the first document's lookups succeed, the second document's course-link
\* lookup raises; the record built for the first document is not published
C25_Witness ==
    /\ Executed
    /\ HasDocuments
    /\ Len(CallResults.metadata) >= 2
    /\ CallResults.metadata[1] = [course_title |-> Some(<<"A", "_", "1">>), lesson_number |-> None]
    /\ CallResults.metadata[2].course_title = Some(<<"A">>)
    /\ call[1].store.courseLinkFaults = {<<"A">>}
    /\ call[1].store.lessonLinkFaults = {}
    /\ ret.outcome = "exception"
    /\ last_sources["search"] = <<>>

----------------------------------------------------------------------------
(* Properties of the registry shared by the queries (Spec) *)

RECURSIVE Concat(_)
\* the concatenation of a sequence of lists
Concat(lists) == IF lists = <<>> THEN <<>> ELSE lists[1] \o Concat(Tail(lists))

\* the citation lists of the registered tools that track sources, in registration order
Accumulated ==
    Concat([i \in 1..Len(tools) |->
               IF tools[i].tool \in SourceTools THEN last_sources[tools[i].tool] ELSE <<>>])

\* C1: with two queries sharing the registry, the list a query obtains from
\* get_last_sources holds only records built by its own dispatches, and the records a
\* query built are replaced or removed only by a step of that query.
C1_QueryIsolation ==
    [][/\ (ret'.op = "get_last_sources" /\ ret'.sources # <<>>) => ret'.by = ret'.q
       /\ \A t \in SourceTools :
              (last_sources[t] # <<>> /\ last_sources'[t] # last_sources[t])
                  => builtBy[t].q = ret'.q]_vars

\* C3: get_last_sources returns the records accumulated by all registered tools,
\* concatenated in registration order, and leaves every registered tool's list empty.
C3_DrainReturnsAll ==
    [][ret'.op = "get_last_sources" =>
          /\ ret'.sources = Accumulated
          /\ \A i \in 1..Len(tools) :
                 tools[i].tool \in SourceTools => last_sources'[tools[i].tool] = <<>>]_vars

\* C4: a get_last_sources that directly follows a get_last_sources returns the empty
\* list, and a get_last_sources made while citations are accumulated returns a
\* non-empty list.
C4_SecondDrainEmpty ==
    [][/\ (ret.op = "get_last_sources" /\ ret'.op = "get_last_sources")
              => ret'.sources = <<>>
       /\ (ret'.op = "get_last_sources" /\ Accumulated # <<>>)
              => ret'.sources # <<>>]_vars

\* C5: after a Content Search execute that ended in a backend-reported error or in an
\* empty result, the tool's last_sources holds no record, whatever it held before.
C5_NoCitationsAfterErrorOrEmpty ==
    (ret.op = "execute_tool" /\ ret.name = "search_course_content"
        /\ ret.outcome \in {"error", "empty"})
        => last_sources["search"] = <<>>

\* C6: last_sources of a Content Search tool never holds a record built by an
\* invocation other than the tool's most recent one.
C6_OverwriteEachInvocation ==
    \A t \in {"search", "custom"} : last_sources[t] # <<>> => builtBy[t].age = 0

----------------------------------------------------------------------------
(* Properties of one Outline Lookup invocation (SpecOutline) *)

\* the call has been made
OutlineExecuted == call # None /\ ret.op = "execute" /\ ret.tool = "outline"

\* the call's resolver returned a canonical title
CallResolves ==
    /\ call[1].store.resolve.kind = "return"
    /\ call[1].store.resolve.value # None
    /\ call[1].store.resolve.value[1] # <<>>

\* the call's resolver returned a title and its catalog returned the course's metadata
CallHasMetadata ==
    /\ CallResolves
    /\ call[1].store.catalog.kind = "return"
    /\ call[1].store.catalog.metadatas # <<>>

\* the lessons_json of the metadata the catalog returned
CallLessonsJson == call[1].store.catalog.metadatas[1].lessons_json

\* the metadata holds a lessons_json that parses to a non-empty list
CallHasLessons ==
    /\ CallHasMetadata
    /\ CallLessonsJson # None
    /\ CallLessonsJson[1].kind = "valid"
    /\ CallLessonsJson[1].value # <<>>

CallLessons == CallLessonsJson[1].value

\* every entry of the list is a lesson with a number (the numbers are then unique)
AllNumbered(lessons) ==
    \A i \in 1..Len(lessons) : lessons[i].isDict /\ lessons[i].lesson_number # None

\* the lessons by ascending number: the k-th is the one with k - 1 smaller numbers
Ascending(lessons) ==
    [k \in 1..Len(lessons) |->
        lessons[CHOOSE i \in 1..Len(lessons) :
                   Cardinality({ j \in 1..Len(lessons) :
                                   lessons[j].lesson_number[1] < lessons[i].lesson_number[1] })
                       = k - 1]]

\* the lesson lines of an outline, as the text ends with them
LessonLines(lessons) == Join(<<"\n">>, [k \in 1..Len(lessons) |-> LessonLine(lessons[k])])

\* text is a heading that ends with the lessons count, a line break and then lines
EndsWithLines(text, lines) ==
    /\ Len(text) >= Len(lines) + 2
    /\ SubSeq(text, Len(text) - Len(lines) + 1, Len(text)) = lines
    /\ text[Len(text) - Len(lines)] = "\n"
    /\ text[Len(text) - Len(lines) - 1] = " total):"

\* C17: for every stored order of a course's lessons (numbers unique) the outline's
\* lesson lines are the lines of the lessons by ascending lesson_number, so they are the
\* same lines in the same order for every permutation of the stored list.
C17_LessonsAscending ==
    (OutlineExecuted /\ CallHasLessons /\ AllNumbered(CallLessons)) =>
        /\ ret.outcome = "outline"
        /\ EndsWithLines(ret.text, LessonLines(Ascending(CallLessons)))

\* C17 witness: the lessons stored in the order 2, 0, 1 are rendered 0, 1, 2
C17_Witness ==
    /\ OutlineExecuted
    /\ CallHasLessons
    /\ CallLessons = <<OutlineLesson(2), OutlineLesson(0), OutlineLesson(1)>>
    /\ EndsWithLines(ret.text,
                     <<"  ", "0", ". ", "Title ", "0", " - ", "https://c/A/", "0", "\n",
                       "  ", "1", ". ", "Title ", "1", "\n",
                       "  ", "2", ". ", "Title ", "2", " - ", "https://c/A/", "2">>)

\* C18: when the resolver returns None, execute returns the "No course found" message
\* naming the input course_name, whatever the catalog would do: the result is the same
\* when the catalog's fetch would raise, so the metadata is not fetched.
C18_UnresolvedStopsLookup ==
    (OutlineExecuted /\ call[1].store.resolve.kind = "return"
        /\ call[1].store.resolve.value = None) =>
        /\ ret.raised = None
        /\ ret.outcome = "no_course"
        /\ ret.text = <<"No course found matching '", call[1].course_name,
                        "'. Please try a different course name or check available courses.">>

\* C18 witness: "Nonexistent Course" is not resolved, over a catalog whose fetch raises
C18_Witness ==
    /\ OutlineExecuted
    /\ call[1].course_name = "Nonexistent Course"
    /\ call[1].store.resolve = Resolved(None)
    /\ call[1].store.catalog.kind = "raise"
    /\ ret.text[1] = "No course found matching '"
    /\ Contains(ret.text, <<"Nonexistent Course">>)

\* C19: when the resolver yields a canonical title and the catalog holds no metadata for
\* it, execute returns the message that the course exists but has no metadata, naming
\* the canonical title, and no outline is rendered.
C19_NoMetadataMessage ==
    (OutlineExecuted /\ CallResolves /\ call[1].store.catalog.kind = "return"
        /\ call[1].store.catalog.metadatas = <<>>) =>
        /\ ret.raised = None
        /\ ret.outcome = "no_metadata"
        /\ ret.text = <<"Course '">> \o call[1].store.resolve.value[1]
                      \o <<"' exists but has no metadata available.">>
        /\ ~Contains(ret.text, <<"Course: ">>)

\* C19 witness: "MCP" resolves to course A, for which the catalog returns no metadata
C19_Witness ==
    /\ OutlineExecuted
    /\ call[1].course_name = "MCP"
    /\ call[1].store.resolve = Resolved(Some(<<"A">>))
    /\ call[1].store.catalog = Catalog(<<>>)
    /\ ret.text = <<"Course '", "A", "' exists but has no metadata available.">>

\* the piece that marks the empty-lessons message
EmptyLessonsMark == "' has an empty lessons list."

\* C20: execute raises nothing, whatever the backend does.  A resolver or a catalog that
\* raises, and a lesson entry that is not a mapping, give "Error retrieving course
\* outline: " followed by the exception's message; a lessons_json that does not parse
\* gives the parse-error text with the parser's message; an empty lesson list gives the
\* empty-lessons message, which the parse-error, no-metadata and no-course results
\* never are.
C20_OutlineNeverRaises ==
    OutlineExecuted =>
        LET store == call[1].store
        IN  /\ ret.raised = None
            /\ ret.text # <<>>
            /\ store.resolve.kind = "raise"
                   => ret.text = <<"Error retrieving course outline: ">> \o store.resolve.msg
            /\ (CallResolves /\ store.catalog.kind = "raise")
                   => ret.text = <<"Error retrieving course outline: ">> \o store.catalog.msg
            /\ (CallHasMetadata /\ CallLessonsJson # None /\ CallLessonsJson[1].kind = "invalid")
                   => /\ ret.text[1] = "Error parsing lessons data for course '"
                      /\ Contains(ret.text, CallLessonsJson[1].msg)
            /\ (CallHasMetadata /\ CallLessonsJson # None /\ CallLessonsJson[1].kind = "valid"
                    /\ CallLessonsJson[1].value = <<>>)
                   => ret.text = <<"Course '">> \o store.resolve.value[1] \o <<EmptyLessonsMark>>
            /\ ret.outcome \in {"parse_error", "no_metadata", "no_course"}
                   => ~Contains(ret.text, <<EmptyLessonsMark>>)
            /\ (CallHasLessons /\ ~(\A i \in 1..Len(CallLessons) : CallLessons[i].isDict))
                   => /\ ret.text[1] = "Error retrieving course outline: "
                      /\ Len(ret.text) > 1

\* C20 witness: the second entry of the parsed lesson list is not a mapping; the call
\* returned the error text with the exception's message
C20_Witness ==
    /\ OutlineExecuted
    /\ CallHasLessons
    /\ Len(CallLessons) = 2
    /\ CallLessons[1].isDict
    /\ ~CallLessons[2].isDict
    /\ ret.raised = None
    /\ ret.text = <<"Error retrieving course outline: ", "'str' object has no attribute 'get'">>

----------------------------------------------------------------------------
(* Properties of the registry's configuration and dispatch (SpecReg) *)

\* C12: execute_tool with a name that is not registered raises the not-found error
\* whose message holds the requested name, whatever the registry holds and whatever the
\* argument bag is; no tool's execute runs and no tool's state changes.
C12_UnregisteredNameRaises ==
    [][(ret'.op = "execute_tool" /\ ~Has(tools, ret'.name)) =>
          /\ ret'.raised # None
          /\ ret'.raised[1][1] = "ValueError: "
          /\ Contains(ret'.raised[1], <<ret'.name>>)
          /\ Contains(ret'.raised[1], <<"' not found">>)
          /\ ret'.tool = ""
          /\ last_sources' = last_sources]_vars

\* C12 witness: a dispatch to "nonexistent_tool" raised while two tools were registered
\* and the search tool held citations
C12_Witness ==
    /\ ret.op = "execute_tool"
    /\ ret.name = "nonexistent_tool"
    /\ ret.raised = Some(<<"ValueError: ", "Tool '", "nonexistent_tool", "' not found">>)
    /\ Len(tools) >= 2
    /\ last_sources["search"] # <<>>

\* C13: execute_tool with a registered name runs that tool's execute and returns its
\* text; nothing is raised through the dispatch, whatever the argument bag (one that
\* misses a required argument or carries an undeclared one included) and the backend do.
C13_RegisteredNameNeverRaises ==
    [][(ret'.op = "execute_tool" /\ Has(tools, ret'.name)) =>
          /\ ret'.raised = None
          /\ ret'.tool = Get(tools, ret'.name)]_vars

\* C14: get_tool_definitions returns one schema per registered name, the i-th schema
\* being the one of the i-th name registered; a registration of a new name puts it
\* behind the names registered before, and no registration moves a name.
C14_SchemasInRegistrationOrder ==
    [][/\ ret'.op = "get_tool_definitions" =>
              /\ Len(ret'.defs) = Len(tools)
              /\ \A i \in 1..Len(tools) :
                     /\ ret'.defs[i].name = Some(tools[i].name)
                     /\ ret'.defs[i] = GetToolDefinition(tools[i].tool)
              /\ \A i, j \in 1..Len(ret'.defs) :
                     ret'.defs[i].name = ret'.defs[j].name => i = j
       /\ (ret'.op = "register_tool" /\ ret'.raised = None) =>
              /\ \A i \in 1..Len(tools) : tools'[i].name = tools[i].name
              /\ ~Has(tools, ret'.name) =>
                     (Len(tools') = Len(tools) + 1 /\ tools'[Len(tools')].name = ret'.name)
              /\ Has(tools, ret'.name) => Len(tools') = Len(tools)]_vars

\* C14 witness: three names registered, the outline name first and re-registered with
\* the second outline tool; the three schemas are listed in that order
C14_Witness ==
    /\ ret.op = "get_tool_definitions"
    /\ Len(ret.defs) = 3
    /\ ret.defs[1].name = Some("get_course_outline")
    /\ ret.defs[2].name = Some("custom_search")
    /\ ret.defs[3].name = Some("search_course_content")
    /\ tools[1].tool = "outline2"

\* C15: register_tool raises the configuration error and leaves the registry as it was
\* when the tool's definition has no name or the empty name; otherwise it raises nothing
\* and the tool is the registry's entry for the name its definition declares.
C15_RegisterRequiresName ==
    [][ret'.op = "register_tool" =>
          LET tool_name == DefName(ret'.tool)
          IN  IF tool_name = None \/ tool_name = Some("")
              THEN /\ ret'.raised # None
                   /\ ret'.raised[1][1] = "ValueError: "
                   /\ tools' = tools
              ELSE /\ ret'.raised = None
                   /\ Has(tools', tool_name[1])
                   /\ Get(tools', tool_name[1]) = ret'.tool]_vars

\* C15 witness: the registration of the tool with the empty name was refused while two
\* tools were registered
C15_Witness ==
    /\ ret.op = "register_tool"
    /\ ret.tool = "emptyname"
    /\ ret.raised # None
    /\ Len(tools) = 2

\* C16: a registration under a registered name replaces the entry: the registry has one
\* entry per name and no more entries than before, the entry is the tool registered
\* last, only a registration changes an entry, and a dispatch runs the name's entry.
C16_LastRegistrationWins ==
    [][/\ \A i, j \in 1..Len(tools') : tools'[i].name = tools'[j].name => i = j
       /\ (ret'.op = "register_tool" /\ ret'.raised = None /\ Has(tools, ret'.name)) =>
              /\ Len(tools') = Len(tools)
              /\ Get(tools', ret'.name) = ret'.tool
              /\ ret'.prev = Some(Get(tools, ret'.name))
       /\ tools' # tools => ret'.op = "register_tool"
       /\ (ret'.op = "execute_tool" /\ ret'.tool # "") => ret'.tool = Get(tools, ret'.name)
       /\ ret'.op = "get_tool_definitions" => Len(ret'.defs) = Len(tools)]_vars

\* C16 witness: the second outline tool was registered under "get_course_outline" while
\* the first one held the name; the registry still has its two entries, the outline
\* name first
C16_Witness ==
    /\ ret.op = "register_tool"
    /\ ret.tool = "outline2"
    /\ ret.prev = Some("outline")
    /\ Len(tools) = 2
    /\ tools[1] = [name |-> "get_course_outline", tool |-> "outline2"]
    /\ tools[2].name = "search_course_content"

----------------------------------------------------------------------------
(* Further properties of the registry shared by the queries (Spec) *)

\* C21: in every state reached by registrations, dispatches of any outcome, drains and
\* resets, the last_sources of a CourseOutlineTool holds no Citation Record.
C21_OutlineNeverCites ==
    \A t \in OutlineTools : last_sources[t] = <<>>

\* C21 witness: the outline tool has just rendered an outline while the search tool
\* holds citations; its own list is empty
C21_Witness ==
    /\ ret.op = "execute_tool"
    /\ ret.tool = "outline"
    /\ ret.outcome = "outline"
    /\ last_sources["outline"] = <<>>
    /\ last_sources["search"] # <<>>

\* the tools that run CourseSearchTool.execute
SearchTools == {"search", "custom"}

\* C24: a Content Search invocation that returns formatted results leaves the list it
\* built (records numbered from 1, each of a course the returned text shows) as
\* last_sources; one that ends in a backend-reported error, an empty result or a caught
\* exception leaves last_sources exactly as it was; and the list is empty exactly when
\* no invocation has returned formatted results since the list was last emptied.
C24_LastFormattedInvocationKept ==
    [][/\ (ret'.op = "execute_tool" /\ ret'.tool \in SearchTools) =>
              IF ret'.outcome = "formatted"
              THEN LET s == last_sources'[ret'.tool]
                   IN  /\ s # <<>>
                       /\ builtBy'[ret'.tool] = [q |-> ret'.q, age |-> 0]
                       /\ \A i \in 1..Len(s) :
                              /\ s[i].citation_number = i
                              /\ Contains(ret'.text, <<"[">> \o s[i].course_title)
              ELSE /\ ret'.outcome \in {"error", "empty", "exception"}
                   /\ last_sources'[ret'.tool] = last_sources[ret'.tool]
       /\ \A t \in SearchTools : (last_sources'[t] = <<>>) <=> (builtBy'[t] = NoInv)]_vars

\* C24 witness: after an invocation that returned formatted results, a later invocation
\* of the same tool ended in an error, an empty result or an exception; the earlier
\* invocation's list is still there
C24_Witness ==
    /\ ret.op = "execute_tool"
    /\ ret.tool = "search"
    /\ ret.outcome \in {"error", "empty", "exception"}
    /\ last_sources["search"] # <<>>
    /\ builtBy["search"].age = 1

\* C26: a dispatch of the outline tool, whatever its outcome, changes no tool's
\* last_sources and no registry entry; and a get_last_sources that follows an outline
\* dispatch, with the search tool the only one holding citations, returns the search
\* tool's list, built by the query that dispatched the search.
C26_OutlineLeavesSearchCitations ==
    [][/\ (ret'.op = "execute_tool" /\ ret'.tool \in OutlineTools) =>
              /\ last_sources' = last_sources
              /\ builtBy' = builtBy
              /\ tools' = tools
       /\ (ret.op = "execute_tool" /\ ret.tool \in OutlineTools
              /\ ret'.op = "get_last_sources"
              /\ last_sources["search"] # <<>> /\ last_sources["custom"] = <<>>) =>
              /\ ret'.sources = last_sources["search"]
              /\ ret'.by = builtBy["search"].q
              /\ last_sources'["search"] = <<>>]_vars

\* C26 witness: a query dispatched the search tool and then the outline tool, whose
\* resolver raised; the search tool still holds the query's citations
C26_Witness ==
    /\ ret.op = "execute_tool"
    /\ ret.tool = "outline"
    /\ ret.outcome = "exception"
    /\ last_sources["search"] # <<>>
    /\ builtBy["search"] = [q |-> ret.q, age |-> 0]

\* C27: a dispatch that raises because the name is not registered changes nothing: the
\* registry's entries and their order and every tool's last_sources are after the raise
\* what they were before the call.
C27_NotFoundChangesNothing ==
    [][(ret'.op = "execute_tool" /\ ret'.raised # None /\ ~Has(tools, ret'.name)) =>
          /\ tools' = tools
          /\ \A t \in SourceTools : last_sources'[t] = last_sources[t]
          /\ builtBy' = builtBy]_vars

\* C27 witness: a dispatch to "get_course_outline" raised not-found in a registry that
\* holds the search tool and the second search tool, in that order, both with citations
C27_Witness ==
    /\ ret.op = "execute_tool"
    /\ ret.name = "get_course_outline"
    /\ ret.raised = Some(ToolNotFound("get_course_outline"))
    /\ Len(tools) = 2
    /\ tools[1].tool = "search"
    /\ tools[2].tool = "custom"
    /\ last_sources["search"] # <<>>
    /\ last_sources["custom"] # <<>>

----------------------------------------------------------------------------
(* The Orchestration Loop *)

\* the loop before its first engine call, for a query with the given round budget
LoopStart(budget) ==
    [state |-> "AWAITING_ENGINE", budget |-> budget, rounds |-> 0, calls |-> 0,
     offered |-> <<>>, pending |-> <<>>, history |-> <<[kind |-> "user", id |-> 0, name |-> "", text |-> "query"]>>]

\* a tool-offering engine call got one more round's schemas than the budget allows
SchemasOfferedOneMore(rounds, budget) == rounds <= budget

\* the tool schemas are passed to an engine call only while rounds remain in the budget
SchemasOffered(rounds, budget) == rounds < budget

\* the tool names an engine may put in a request, and the ones the registry knows
RequestNames == {"search_course_content", "get_course_outline", "nonexistent_tool"}

RegisteredNames == {"search_course_content", "get_course_outline"}

\* the request lists one engine response may carry: names in the engine's order
RequestLists == UNION { [1..n -> RequestNames] : n \in 1..MaxRequests }

\* the texts a dispatched tool may return: the search tool a result or the text of its
\* internal failure, the outline tool an outline
ToolTextsOf(name) ==
    IF name = "search_course_content" THEN {"result", "Search tool error: failure"}
    ELSE {"outline"}

ToolTexts == UNION { ToolTextsOf(name) : name \in RegisteredNames }

\* a tool-result entry that does not carry its request's identifier
ResultEntryUnmatched(request, text) ==
    [kind |-> "tool_result", id |-> 0, name |-> request.name, text |-> text]

\* the tool-result entry appended for a request
ResultEntry(request, text) ==
    [kind |-> "tool_result", id |-> request.id, name |-> request.name, text |-> text]

\* what an engine call may answer: a final text, tool requests (only when schemas were
\* offered), or a transport failure
Responses(offered) ==
    { [kind |-> "final", names |-> <<>>], [kind |-> "transport_error", names |-> <<>>] }
    \cup (IF offered THEN { [kind |-> "tool_use", names |-> l] : l \in RequestLists } ELSE {})

InitLoop ==
    /\ tools = <<>>
    /\ last_sources = FreshSources
    /\ builtBy = FreshBuiltBy
    /\ ret = NoRet
    /\ call = None
    /\ loop \in { LoopStart(b) : b \in 1..MaxBudget }

\* AWAITING_ENGINE: one engine call and the transition its response causes
CallEngine ==
    /\ loop.state = "AWAITING_ENGINE"
    /\ LET offered == SchemasOffered(loop.rounds, loop.budget)
       IN  \E response \in Responses(offered) :
             LET called == [loop EXCEPT !.calls = @ + 1, !.offered = Append(@, offered)]
             IN  loop' =
                   CASE response.kind = "final" ->
                          [called EXCEPT !.state = "FINAL",
                                         !.history = Append(@, [kind |-> "answer", id |-> 0,
                                                                name |-> "", text |-> "answer"])]
                     [] response.kind = "transport_error" ->
                          [called EXCEPT !.state = "FAILED"]
                     [] OTHER ->
                          [called EXCEPT
                              !.state = "DISPATCHING",
                              !.pending = [k \in 1..Len(response.names) |->
                                              [id |-> loop.rounds * MaxRequests + k,
                                               name |-> response.names[k]]],
                              !.history = @ \o [k \in 1..Len(response.names) |->
                                                   [kind |-> "tool_use",
                                                    id |-> loop.rounds * MaxRequests + k,
                                                    name |-> response.names[k], text |-> ""]]]
    /\ UNCHANGED <<tools, last_sources, ret, builtBy, call>>

\* DISPATCHING: the next request of the response is dispatched and its result appended;
\* after the last one the round is over
Dispatch ==
    /\ loop.state = "DISPATCHING"
    /\ loop.pending # <<>>
    /\ LET request == loop.pending[1]
       IN  IF request.name \notin RegisteredNames
           THEN loop' = [loop EXCEPT !.state = "FAILED"]
           ELSE \E text \in ToolTextsOf(request.name) :
                  LET rest == Tail(loop.pending)
                  IN  loop' = [loop EXCEPT
                                  !.pending = rest,
                                  !.history = Append(@, ResultEntry(request, text)),
                                  !.rounds = IF rest = <<>> THEN @ + 1 ELSE @,
                                  !.state = IF rest = <<>> THEN "AWAITING_ENGINE" ELSE @]
    /\ UNCHANGED <<tools, last_sources, ret, builtBy, call>>

NextLoop == CallEngine \/ Dispatch

SpecLoop == InitLoop /\ [][NextLoop]_vars

\* C2: the loop makes at most budget + 1 engine calls and is over once it has made that
\* many; schemas are offered on a call exactly while rounds remain in the budget, so the
\* call made with the budget exhausted is made without them; and until it is over the
\* loop can always take its next step.
C2_RoundBudget ==
    /\ loop.calls <= loop.budget + 1
    /\ loop.calls = loop.budget + 1 => loop.state \in {"FINAL", "FAILED"}
    /\ Len(loop.offered) = loop.calls
    /\ \A i \in 1..Len(loop.offered) : loop.offered[i] <=> (i <= loop.budget)
    /\ (loop.state = "FINAL" /\ loop.rounds = loop.budget)
           => ~loop.offered[Len(loop.offered)]
    /\ loop.state \in {"FINAL", "FAILED"} \/ ENABLED NextLoop

\* the tool-request entries and the tool-result entries of the history, in history order
ToolUses == SelectSeq(loop.history, LAMBDA e : e.kind = "tool_use")

ToolResults == SelectSeq(loop.history, LAMBDA e : e.kind = "tool_result")

\* C23: the tool-result entries of the history answer the tool requests in request
\* order, each carrying its request's identifier and name and a text, and each after its
\* request; whenever the engine is about to be called, or the loop is FINAL, every
\* request has its entry, and while the loop dispatches, the requests still pending are
\* the ones without an entry, in request order.
C23_ResultsInRequestOrder ==
    /\ Len(ToolResults) <= Len(ToolUses)
    /\ \A i, j \in 1..Len(ToolUses) : ToolUses[i].id = ToolUses[j].id => i = j
    /\ \A i \in 1..Len(ToolResults) :
           /\ ToolResults[i].id = ToolUses[i].id
           /\ ToolResults[i].name = ToolUses[i].name
           /\ ToolResults[i].text \in ToolTexts
    /\ \A p \in 1..Len(loop.history) :
           loop.history[p].kind = "tool_result" =>
               \E u \in 1..(p - 1) :
                   /\ loop.history[u].kind = "tool_use"
                   /\ loop.history[u].id = loop.history[p].id
    /\ loop.state \in {"AWAITING_ENGINE", "FINAL"} => Len(ToolResults) = Len(ToolUses)
    /\ loop.state = "DISPATCHING" =>
           /\ Len(loop.pending) = Len(ToolUses) - Len(ToolResults)
           /\ \A k \in 1..Len(loop.pending) :
                  /\ loop.pending[k].id = ToolUses[Len(ToolResults) + k].id
                  /\ loop.pending[k].name = ToolUses[Len(ToolResults) + k].name

\* C23 witness: one response asked for a search and then an outline; the search failed
\* internally; before the next engine call the history holds both results in request
\* order, the first with the failure text
C23_Witness ==
    /\ loop.state = "AWAITING_ENGINE"
    /\ loop.calls = 1
    /\ Len(ToolUses) = 2
    /\ ToolUses[1].name = "search_course_content"
    /\ ToolUses[2].name = "get_course_outline"
    /\ Len(ToolResults) = 2
    /\ ToolResults[1] = [kind |-> "tool_result", id |-> ToolUses[1].id,
                         name |-> "search_course_content", text |-> "Search tool error: failure"]
    /\ ToolResults[2].id = ToolUses[2].id
    /\ ToolResults[2].text = "outline"
    /\ ToolUses[1].id # ToolUses[2].id

\* C2 witness: an engine that asked for a tool on every call that offered schemas; the
\* loop is FINAL after budget + 1 calls, the last one without schemas
C2_Witness ==
    /\ loop.state = "FINAL"
    /\ loop.budget = 2
    /\ loop.rounds = loop.budget
    /\ loop.calls = loop.budget + 1
    /\ ~loop.offered[loop.calls]

====
